---- MODULE Spec2Model ----
(***************************************************************************)
(* Model of the todo application.                                          *)
(*                                                                         *)
(* Server (src/backend/init-db/schema.sql): the todos table, the single    *)
(* Redis key 'todos', and the four /todos handlers.  Every handler is      *)
(* split at its awaits: one action per store or cache operation, executed  *)
(* atomically by the store or the cache, and interleaved freely with the   *)
(* steps of the other in-flight handlers (Spec; SpecSerial with one        *)
(* request at a time; SpecLive with a clock that keeps advancing).         *)
(* SpecProcess is the process around them: startServer and the SIGTERM and *)
(* SIGINT handlers.                                                        *)
(*                                                                         *)
(* Client (src/frontend/src/App.js): the React state of App, its handlers  *)
(* split at their awaited request, and the server answering them           *)
(* (SpecClient).                                                           *)
(***************************************************************************)
EXTENDS Integers, Sequences, FiniteSets, TLC

\* ---------------------------------------------------------------- bounds
NumReq == 2          \* handlers in flight at once
NumOps == 2          \* client requests in flight at once
MaxClicks == 4       \* user actions (typing, submit, toggle, delete) in one behaviour
MaxEvents == 3       \* requests, clock advances and failed operations in one behaviour

\* ------------------------------------------------------- program constants
TTL == 300           \* setEx('todos', 300, ...)
CacheKey == "todos"

Req == 1..NumReq

\* Strings are sequences of one-character strings.  The inputs below are the
\* request bodies and ids the clients send.
Space == " "
PostTitles == {<<>>, <<Space>>, <<Space, "a", Space>>}
PostDescriptions == {<<"d", Space>>}
PutDescriptions == {<<"e">>}
TargetIds == {4, 5}
TickSteps == {1, TTL}
TieBreaks == {"asc", "desc"}

VARIABLES
  todos,        \* the todos table, in insertion (id) order
  nextId,       \* AUTO_INCREMENT counter of todos.id
  now,          \* CURRENT_TIMESTAMP, in whole seconds
  redisClient,  \* "undefined" when createClient threw, else "client"
  cache,        \* Redis keyspace: key -> [val, exp, at, asof, wver]
  req,          \* per handler in flight: position, parameters and locals
  out,          \* the response the last step sent, with the request it answers
  plan,         \* the engine's access path for ORDER BY created_at DESC
  failed,       \* history: some store or cache operation has failed
  ver,          \* history: number of store mutations executed so far
  acked,        \* history: highest ver a success response has acknowledged
  events,       \* requests started, clock advances and failures so far
  proc,         \* the server process: startup phase, pool, cache connection, signal handlers
  ui            \* the browser client (src/frontend/src/App.js): React state and requests in flight

vars == <<todos, nextId, now, redisClient, cache, req, out, plan, failed, ver, acked, events,
          proc, ui>>

\* ------------------------------------------------------------------ schema
\* INSERT INTO todos ... VALUES (4 sample rows): one statement, so all four
\* rows get the same CURRENT_TIMESTAMP (second 0; the server starts later).
\* Titles and descriptions are abbreviated to one letter.
SeedRow(i, t, d, c) ==
  [id |-> i, title |-> <<t>>, description |-> <<d>>, completed |-> c,
   created_at |-> 0, updated_at |-> 0]

SeedRows ==
  << SeedRow(1, "D", "p", 0), SeedRow(2, "R", "q", 0),
     SeedRow(3, "A", "r", 1), SeedRow(4, "M", "s", 1) >>

\* ----------------------------------------------------------------- helpers
RECURSIVE TrimStart(_)
TrimStart(s) ==
  IF s = <<>> THEN <<>>
  ELSE IF Head(s) = Space THEN TrimStart(Tail(s)) ELSE s

RECURSIVE TrimEnd(_)
TrimEnd(s) ==
  IF s = <<>> THEN <<>>
  ELSE IF s[Len(s)] = Space THEN TrimEnd(SubSeq(s, 1, Len(s) - 1)) ELSE s

\* String.prototype.trim
Trim(s) == TrimEnd(TrimStart(s))

\* const { title, description = '' } = req.body
HasTitle(body) == "title" \in DOMAIN body
DescriptionOf(body) == IF "description" \in DOMAIN body THEN body.description ELSE <<>>

\* the check without the trim: !title only
TitleRejectedNoTrim(body) ==
  IF ~HasTitle(body) THEN TRUE ELSE Len(body.title) = 0

\* !title || title.trim().length === 0
TitleRejected(body) ==
  IF ~HasTitle(body) THEN TRUE
  ELSE IF Len(body.title) = 0 THEN TRUE
  ELSE Len(Trim(body.title)) = 0

\* BOOLEAN is TINYINT(1): true/false are stored as 1/0
Tinyint(b) == IF b THEN 1 ELSE 0

\* ORDER BY created_at DESC.  created_at has one-second resolution and the
\* statement names no second sort key, so rows of the same second come in an
\* order the engine picks: by ascending id (scan + sort) or by descending id
\* (backward scan of idx_todos_created_at).
Precedes(a, b, tie) ==
  \/ a.created_at > b.created_at
  \/ /\ a.created_at = b.created_at
     /\ IF tie = "asc" THEN a.id < b.id ELSE a.id > b.id

RemoveAt(s, i) == SubSeq(s, 1, i - 1) \o SubSeq(s, i + 1, Len(s))

\* the same sort with the direction reversed: ORDER BY created_at ASC
RECURSIVE OrderByCreatedAtAsc(_, _)
OrderByCreatedAtAsc(table, tie) ==
  IF table = <<>> THEN <<>>
  ELSE LET i == CHOOSE k \in DOMAIN table :
                  \A j \in DOMAIN table : j # k => Precedes(table[j], table[k], tie)
       IN <<table[i]>> \o OrderByCreatedAtAsc(RemoveAt(table, i), tie)

RECURSIVE OrderByCreatedAtDesc(_, _)
OrderByCreatedAtDesc(table, tie) ==
  IF table = <<>> THEN <<>>
  ELSE LET i == CHOOSE k \in DOMAIN table :
                  \A j \in DOMAIN table : j # k => Precedes(table[k], table[j], tie)
       IN <<table[i]>> \o OrderByCreatedAtDesc(RemoveAt(table, i), tie)

\* mysql2 hands TIMESTAMP columns to the handler as Date objects
AsDate(t) == [date |-> t]
ResultRow(r) ==
  [r EXCEPT !.created_at = AsDate(r.created_at), !.updated_at = AsDate(r.updated_at)]

\* SELECT id, title, description, completed, created_at, updated_at FROM todos ...
SelectTodos(table, tie) ==
  LET sorted == OrderByCreatedAtDesc(table, tie)
  IN [i \in DOMAIN sorted |-> ResultRow(sorted[i])]

\* JSON.stringify: a Date becomes its ISO string, a string stays a string
ToJson(v) == IF "date" \in DOMAIN v THEN [iso |-> v.date] ELSE v
JsonRow(r) ==
  [r EXCEPT !.created_at = ToJson(r.created_at), !.updated_at = ToJson(r.updated_at)]
JsonStringify(rows) == [i \in DOMAIN rows |-> JsonRow(rows[i])]

\* JSON.parse: the ISO strings are not revived into Dates
JsonParse(text) == text

\* res.json(value)
ResJson(rows) == JsonStringify(rows)

\* ------------------------------------------------------------ cache (Redis)
NoKeys == [k \in {} |-> 0]

\* redis GET: the value, or null when the key is absent
CacheHit(c) == CacheKey \in DOMAIN c

\* a SETEX with ten times the expiry
CacheSetExLong(c, text, t, asof, v) ==
  [k \in {CacheKey} |-> [val |-> text, exp |-> t + 10 * TTL, at |-> t, asof |-> asof, wver |-> v]]

\* redis SETEX key seconds value
CacheSetEx(c, text, t, asof, v) ==
  [k \in {CacheKey} |-> [val |-> text, exp |-> t + TTL, at |-> t, asof |-> asof, wver |-> v]]

\* an invalidation that leaves the key in place
CacheDelKept(c) == c

\* redis DEL key
CacheDel(c) == [k \in DOMAIN c \ {CacheKey} |-> c[k]]

\* an expiry that drops the key one TTL after its deadline
ExpireLate(c, t) == [k \in {x \in DOMAIN c : c[x].exp + TTL > t} |-> c[k]]

\* key expiry as the clock reaches the entry's deadline
Expire(c, t) == [k \in {x \in DOMAIN c : c[x].exp > t} |-> c[k]]

\* ----------------------------------------------------------------- table
RowIndex(table, id) == {i \in DOMAIN table : table[i].id = id}

\* an insert whose id is the row count plus one, not the AUTO_INCREMENT counter
InsertRowCountId(table, id, title, description, t) ==
  Append(table, [id |-> Len(table) + 1, title |-> title, description |-> description,
                 completed |-> 0, created_at |-> t, updated_at |-> t])

\* INSERT INTO todos (title, description) VALUES (?, ?)
InsertRow(table, id, title, description, t) ==
  Append(table, [id |-> id, title |-> title, description |-> description,
                 completed |-> 0, created_at |-> t, updated_at |-> t])

\* an update that inserts the row when no row matches (an upsert)
UpdateRowUpsert(table, id, title, description, completed, t) ==
  IF RowIndex(table, id) = {}
  THEN Append(table, [id |-> id, title |-> title, description |-> description,
                      completed |-> Tinyint(completed), created_at |-> t, updated_at |-> t])
  ELSE [i \in DOMAIN table |->
          IF table[i].id = id
          THEN [table[i] EXCEPT !.title = title, !.description = description,
                                !.completed = Tinyint(completed), !.updated_at = t]
          ELSE table[i]]

\* the update without its WHERE clause: every row is set
UpdateRowAll(table, id, title, description, completed, t) ==
  [i \in DOMAIN table |->
     [table[i] EXCEPT !.title = title, !.description = description,
                      !.completed = Tinyint(completed), !.updated_at = t]]

\* UPDATE todos SET title = ?, description = ?, completed = ?,
\*   updated_at = CURRENT_TIMESTAMP WHERE id = ?
UpdateRow(table, id, title, description, completed, t) ==
  [i \in DOMAIN table |->
     IF table[i].id = id
     THEN [table[i] EXCEPT !.title = title, !.description = description,
                           !.completed = Tinyint(completed), !.updated_at = t]
     ELSE table[i]]

RECURSIVE DeleteRow(_, _)
\* DELETE FROM todos WHERE id = ?
DeleteRow(table, id) ==
  IF table = <<>> THEN <<>>
  ELSE IF Head(table).id = id THEN DeleteRow(Tail(table), id)
  ELSE <<Head(table)>> \o DeleteRow(Tail(table), id)

\* result.affectedRows
AffectedRows(table, id) == Cardinality(RowIndex(table, id))

\* result.affectedRows === 0
NotFound(n) == n = 0

Max(a, b) == IF a > b THEN a ELSE b

\* --------------------------------------------------------------- handlers
NoBody == [k \in {} |-> 0]

\* request bodies: POST {title?, description?}, PUT {title?, description, completed}
PostBodies ==
  {NoBody} \cup {[title |-> t] : t \in PostTitles}
           \cup {[title |-> <<Space, "a", Space>>, description |-> d] : d \in PostDescriptions}
PutBodies ==
  {[description |-> d, completed |-> TRUE] : d \in PutDescriptions}
    \cup {[title |-> <<Space>>, description |-> d, completed |-> TRUE] : d \in PutDescriptions}
    \cup {[title |-> <<"b">>, description |-> d, completed |-> FALSE] : d \in PutDescriptions}

\* mysql2 execute(): "Bind parameters must not contain undefined"
BindsUndefined(body) == {"title", "description", "completed"} \ DOMAIN body # {}

\* A handler between two awaits: its request, its locals, and for a GET what
\* it has read (asof: the store version its list was read at; since, sver:
\* the acknowledged and the executed store version when it started; quiet:
\* no writer was in flight when it started).
Idle ==
  [op |-> "idle", pc |-> "idle", id |-> 0, body |-> NoBody, rows |-> <<>>,
   affected |-> 0, insertId |-> 0, since |-> 0, sver |-> 0, asof |-> 0,
   mver |-> 0, src |-> "none", raced |-> FALSE, quiet |-> FALSE]

NoResponse == [h \in {"op"} |-> "none"]

\* res.status(s).json(b): the response, with the request it answers
Answer(slot, s, b) ==
  [op |-> slot.op, id |-> slot.id, body |-> slot.body, status |-> s, resp |-> b,
   err |-> "none", affected |-> slot.affected, since |-> slot.since,
   sver |-> slot.sver, asof |-> slot.asof, mver |-> slot.mver,
   src |-> slot.src, raced |-> slot.raced, quiet |-> slot.quiet]

\* a catch block that puts the error into the body: res.status(500).json({ error: error.message })
CaughtLeaking(slot, e) ==
  [Answer(slot, 500, [error |-> e]) EXCEPT !.err = e]

\* catch (error) { console.error(..., error); res.status(500).json({ error: 'Internal server error' }) }
Caught(slot, e) ==
  [Answer(slot, 500, [error |-> "Internal server error"]) EXCEPT !.err = e]

\* Handler slots are interchangeable, so a new request takes the lowest idle
\* one.  A handler runs without interruption up to its first await, so its
\* start is one step with the store or cache operation it awaits first.
CanStart(r) ==
  /\ req[r].pc = "idle"
  /\ \A q \in Req : q < r => req[q].pc # "idle"
  /\ events < MaxEvents

\* room for a failure besides the step's own event
MayFail(used) == events + used < MaxEvents
HasClient == redisClient = "client"

\* ---- the server process -------------------------------------------------
\* process.on('SIGTERM', ...), process.on('SIGINT', ...): the same handler twice
Signals == {"SIGTERM", "SIGINT"}

\* let db; let redisClient; before startServer() has run
Booting ==
  [phase |-> "start", db |-> "undefined", conn |-> "none",
   sig |-> [s \in Signals |-> "idle"], code |-> "running"]

\* after startServer(): the pool created, the cache client connected if there
\* is one, the port open
Listening(client) ==
  [Booting EXCEPT !.phase = "listening", !.db = "pool",
                  !.conn = IF client = "client" THEN "open" ELSE "none"]

\* ---- the browser client -------------------------------------------------
Ops == 1..NumOps

\* useState({ title: '', description: '' })
EmptyForm == [title |-> <<>>, description |-> <<>>]

NoOp == [kind |-> "idle", pc |-> "idle", id |-> 0, snap |-> <<>>, form |-> EmptyForm,
         flag |-> FALSE, outcome |-> "none", data |-> <<>>]

\* after the first render and its effect: todos [], loading true, the form
\* empty, and fetchTodos() awaiting api.get('/todos')
Mounted ==
  [todos |-> <<>>, loading |-> TRUE, newTodo |-> EmptyForm,
   confirm |-> 0, answer |-> "none", toast |-> "none",
   ops |-> [k \in Ops |-> IF k = 1 THEN [NoOp EXCEPT !.kind = "fetch", !.pc = "sent"] ELSE NoOp],
   clicks |-> 0, failed |-> FALSE]

Init ==
  /\ todos = SeedRows
  /\ nextId = Len(SeedRows) + 1
  /\ now = 1
  /\ redisClient \in {"undefined", "client"}
  /\ cache = NoKeys
  /\ req = [r \in Req |-> Idle]
  /\ out = NoResponse
  /\ plan \in TieBreaks
  /\ failed = FALSE
  /\ ver = 0
  /\ acked = 0
  /\ events = 0
  /\ proc = Listening(redisClient)
  /\ ui = Mounted

\* ---- GET /todos -------------------------------------------------------
\* const cached = await redisClient?.get('todos');
\* if (cached) return res.json(JSON.parse(cached))
GetTodos(r) ==
  /\ CanStart(r)
  /\ LET slot == [Idle EXCEPT !.op = "get", !.since = acked, !.sver = ver,
                               !.quiet = \A q \in Req : req[q].op \notin {"post", "put", "delete"}]
     IN \/ /\ HasClient /\ MayFail(1)
           /\ failed' = TRUE /\ events' = events + 2
           /\ out' = Caught(slot, "cache")
           /\ req' = req
        \/ /\ HasClient /\ CacheHit(cache)
           /\ failed' = failed /\ events' = events + 1
           /\ out' = Answer([slot EXCEPT !.asof = cache[CacheKey].asof, !.src = "cache",
                                         !.raced = cache[CacheKey].asof < cache[CacheKey].wver],
                            200, ResJson(JsonParse(cache[CacheKey].val)))
           /\ req' = req
        \/ /\ ~HasClient \/ ~CacheHit(cache)
           /\ failed' = failed /\ events' = events + 1
           /\ out' = NoResponse
           /\ req' = [req EXCEPT ![r] = [slot EXCEPT !.pc = "query"]]
  /\ UNCHANGED <<proc, ui, todos, nextId, now, redisClient, cache, plan, ver, acked>>

\* const [rows] = await db.execute('SELECT ... ORDER BY created_at DESC')
GetQuery(r) ==
  /\ req[r].op = "get" /\ req[r].pc = "query"
  /\ \/ /\ MayFail(0)
        /\ failed' = TRUE /\ events' = events + 1
        /\ out' = Caught(req[r], "store")
        /\ req' = [req EXCEPT ![r] = Idle]
     \/ /\ UNCHANGED <<failed, events>>
        /\ out' = NoResponse
        /\ req' = [req EXCEPT ![r] = [@ EXCEPT !.pc = "setEx", !.asof = ver, !.src = "store",
                                               !.rows = SelectTodos(todos, plan)]]
  /\ UNCHANGED <<proc, ui, todos, nextId, now, redisClient, cache, plan, ver, acked>>

\* await redisClient?.setEx('todos', 300, JSON.stringify(rows)); res.json(rows)
GetSetEx(r) ==
  /\ req[r].op = "get" /\ req[r].pc = "setEx"
  /\ \/ /\ HasClient /\ MayFail(0)
        /\ failed' = TRUE /\ events' = events + 1
        /\ out' = Caught(req[r], "cache")
        /\ cache' = cache
     \/ /\ UNCHANGED <<failed, events>>
        /\ out' = Answer(req[r], 200, ResJson(req[r].rows))
        /\ cache' = IF HasClient
                    THEN CacheSetEx(cache, JsonStringify(req[r].rows), now, req[r].asof, ver)
                    ELSE cache
  /\ req' = [req EXCEPT ![r] = Idle]
  /\ UNCHANGED <<proc, ui, todos, nextId, now, redisClient, plan, ver, acked>>

\* ---- cache invalidation, the same three lines in each writer -----------
\* await redisClient?.del('todos'); then the success response
Invalidate(r, status, body) ==
  /\ \/ /\ HasClient /\ MayFail(0)
        /\ failed' = TRUE /\ events' = events + 1
        /\ out' = Caught(req[r], "cache")
        /\ UNCHANGED <<cache, acked>>
     \/ /\ UNCHANGED <<failed, events>>
        /\ out' = Answer(req[r], status, body)
        /\ acked' = Max(acked, req[r].mver)
        /\ cache' = IF HasClient THEN CacheDel(cache) ELSE cache
  /\ req' = [req EXCEPT ![r] = Idle]

\* ---- POST /todos ------------------------------------------------------
\* const { title, description = '' } = req.body; the title check;
\* const [result] = await db.execute('INSERT INTO todos (title, description) VALUES (?, ?)',
\*                                   [title.trim(), description.trim()])
PostTodo(r) ==
  /\ CanStart(r)
  /\ \E body \in PostBodies :
       LET slot == [Idle EXCEPT !.op = "post", !.body = body]
       IN \/ /\ TitleRejected(body)
             /\ failed' = failed /\ events' = events + 1
             /\ out' = Answer(slot, 400, [error |-> "Title is required"])
             /\ UNCHANGED <<todos, nextId, ver, req>>
          \/ /\ ~TitleRejected(body)
             /\ MayFail(1)
             /\ failed' = TRUE /\ events' = events + 2
             /\ out' = Caught(slot, "store")
             /\ UNCHANGED <<todos, nextId, ver, req>>
          \/ /\ ~TitleRejected(body)
             /\ failed' = failed /\ events' = events + 1
             /\ todos' = InsertRow(todos, nextId, Trim(body.title), Trim(DescriptionOf(body)), now)
             /\ nextId' = nextId + 1
             /\ ver' = ver + 1
             /\ out' = NoResponse
             /\ req' = [req EXCEPT ![r] = [slot EXCEPT !.pc = "del", !.insertId = nextId,
                                                       !.affected = 1, !.mver = ver + 1]]
  /\ UNCHANGED <<proc, ui, now, redisClient, cache, plan, acked>>

\* await redisClient?.del('todos');
\* res.status(201).json({ id: result.insertId, title, description, completed: false, created_at })
PostDel(r) ==
  /\ req[r].op = "post" /\ req[r].pc = "del"
  /\ Invalidate(r, 201,
       [id |-> req[r].insertId, title |-> Trim(req[r].body.title),
        description |-> Trim(DescriptionOf(req[r].body)),
        completed |-> FALSE, created_at |-> ToJson(AsDate(now))])
  /\ UNCHANGED <<proc, ui, todos, nextId, now, redisClient, plan, ver>>

\* ---- PUT /todos/:id ---------------------------------------------------
\* const { id } = req.params; const { title, description, completed } = req.body;
\* const [result] = await db.execute('UPDATE todos SET ... WHERE id = ?', ...);
\* if (result.affectedRows === 0) return res.status(404).json(...)
\* mysql2 refuses an undefined bind parameter before anything reaches the store.
PutTodo(r) ==
  /\ CanStart(r)
  /\ \E id \in TargetIds, body \in PutBodies :
       LET slot == [Idle EXCEPT !.op = "put", !.id = id, !.body = body]
           n == AffectedRows(todos, id)
       IN \/ /\ BindsUndefined(body)
             /\ failed' = failed /\ events' = events + 1
             /\ out' = Caught(slot, "bind")
             /\ UNCHANGED <<todos, ver, req>>
          \/ /\ ~BindsUndefined(body)
             /\ MayFail(1)
             /\ failed' = TRUE /\ events' = events + 2
             /\ out' = Caught(slot, "store")
             /\ UNCHANGED <<todos, ver, req>>
          \/ /\ ~BindsUndefined(body)
             /\ failed' = failed /\ events' = events + 1
             /\ todos' = UpdateRow(todos, id, body.title, body.description, body.completed, now)
             /\ IF NotFound(n)
                THEN /\ out' = Answer(slot, 404, [error |-> "Todo not found"])
                     /\ UNCHANGED <<ver, req>>
                ELSE /\ out' = NoResponse
                     /\ ver' = ver + 1
                     /\ req' = [req EXCEPT ![r] = [slot EXCEPT !.pc = "del", !.affected = n,
                                                               !.mver = ver + 1]]
  /\ UNCHANGED <<proc, ui, nextId, now, redisClient, cache, plan, acked>>

\* await redisClient?.del('todos'); res.json({ message: 'Todo updated successfully' })
PutDel(r) ==
  /\ req[r].op = "put" /\ req[r].pc = "del"
  /\ Invalidate(r, 200, [message |-> "Todo updated successfully"])
  /\ UNCHANGED <<proc, ui, todos, nextId, now, redisClient, plan, ver>>

\* ---- DELETE /todos/:id ------------------------------------------------
\* const { id } = req.params;
\* const [result] = await db.execute('DELETE FROM todos WHERE id = ?', [id]);
\* if (result.affectedRows === 0) return res.status(404).json(...)
DeleteTodo(r) ==
  /\ CanStart(r)
  /\ \E id \in TargetIds :
       LET slot == [Idle EXCEPT !.op = "delete", !.id = id]
           n == AffectedRows(todos, id)
       IN \/ /\ MayFail(1)
             /\ failed' = TRUE /\ events' = events + 2
             /\ out' = Caught(slot, "store")
             /\ UNCHANGED <<todos, ver, req>>
          \/ /\ failed' = failed /\ events' = events + 1
             /\ todos' = DeleteRow(todos, id)
             /\ IF NotFound(n)
                THEN /\ out' = Answer(slot, 404, [error |-> "Todo not found"])
                     /\ UNCHANGED <<ver, req>>
                ELSE /\ out' = NoResponse
                     /\ ver' = ver + 1
                     /\ req' = [req EXCEPT ![r] = [slot EXCEPT !.pc = "del", !.affected = n,
                                                               !.mver = ver + 1]]
  /\ UNCHANGED <<proc, ui, nextId, now, redisClient, cache, plan, acked>>

\* await redisClient?.del('todos'); res.json({ message: 'Todo deleted successfully' })
DeleteDel(r) ==
  /\ req[r].op = "delete" /\ req[r].pc = "del"
  /\ Invalidate(r, 200, [message |-> "Todo deleted successfully"])
  /\ UNCHANGED <<proc, ui, todos, nextId, now, redisClient, plan, ver>>

\* ---- environment -------------------------------------------------------
\* the clock advances; Redis drops the key once its expiry is reached
Tick ==
  /\ events < MaxEvents
  /\ \E d \in TickSteps :
       /\ now' = now + d
       /\ cache' = Expire(cache, now + d)
  /\ events' = events + 1
  /\ out' = NoResponse
  /\ UNCHANGED <<proc, ui, todos, nextId, redisClient, req, plan, failed, ver, acked>>

Next ==
  \/ \E r \in Req : GetTodos(r)
  \/ \E r \in Req : GetQuery(r)
  \/ \E r \in Req : GetSetEx(r)
  \/ \E r \in Req : PostTodo(r)
  \/ \E r \in Req : PostDel(r)
  \/ \E r \in Req : PutTodo(r)
  \/ \E r \in Req : PutDel(r)
  \/ \E r \in Req : DeleteTodo(r)
  \/ \E r \in Req : DeleteDel(r)
  \/ Tick

Spec == Init /\ [][Next]_vars

\* ---- time keeps advancing ---------------------------------------------
\* The same server with a clock that cannot stop while the key is set: wall
\* time passes whatever the requests do, in stretches of just under or of one
\* full expiry period.  (With the key absent, further time changes nothing
\* but the timestamps, which Tick covers.)
AdvanceSteps == {TTL - 1, TTL}
Advance ==
  /\ CacheHit(cache)
  /\ \E d \in AdvanceSteps :
       /\ now' = now + d
       /\ cache' = Expire(cache, now + d)
  /\ out' = NoResponse
  /\ UNCHANGED <<proc, ui, todos, nextId, redisClient, req, plan, failed, ver, acked, events>>

NextLive == Next \/ Advance

SpecLive == Init /\ [][NextLive]_vars /\ WF_vars(Advance)

\* ---- startup and shutdown ----------------------------------------------
Alive == proc.code = "running"

\* async function initializeDatabase(): db = mysql.createPool(dbConfig), or
\* process.exit(1) when createPool throws
InitializeDatabase ==
  /\ Alive /\ proc.phase = "start"
  /\ \/ proc' = [proc EXCEPT !.phase = "db", !.db = "pool"]
     \/ proc' = [proc EXCEPT !.code = "exit1"]
  /\ UNCHANGED <<todos, nextId, now, redisClient, cache, req, out, plan, failed, ver, acked,
                 events, ui>>

\* redisClient = redis.createClient({...}); await redisClient.connect()
\* (a throw of createClient is caught and logged; redisClient stays undefined)
InitializeRedis ==
  /\ Alive /\ proc.phase = "db"
  /\ \/ /\ redisClient' = "client"
        /\ proc' = [proc EXCEPT !.phase = "connecting"]
     \/ /\ redisClient' = redisClient
        /\ proc' = [proc EXCEPT !.phase = "redis"]
  /\ UNCHANGED <<todos, nextId, now, cache, req, out, plan, failed, ver, acked, events, ui>>

\* the awaited connect() resolves, or rejects and is caught and logged
RedisConnect ==
  /\ Alive /\ proc.phase = "connecting"
  /\ \E c \in {"open", "closed"} : proc' = [proc EXCEPT !.phase = "redis", !.conn = c]
  /\ UNCHANGED <<todos, nextId, now, redisClient, cache, req, out, plan, failed, ver, acked,
                 events, ui>>

\* app.listen(PORT, '0.0.0.0', ...)
Listen ==
  /\ Alive /\ proc.phase = "redis"
  /\ proc' = [proc EXCEPT !.phase = "listening"]
  /\ UNCHANGED <<todos, nextId, now, redisClient, cache, req, out, plan, failed, ver, acked,
                 events, ui>>

\* The signal arrives: the handler logs and calls db?.end(), which it awaits.
\* With db still undefined the call is skipped and the await resumes at once.
Signal(s) ==
  /\ Alive /\ proc.sig[s] = "idle"
  /\ proc' = [proc EXCEPT !.sig[s] = IF proc.db = "undefined" THEN "ended" ELSE "ending"]
  /\ UNCHANGED <<todos, nextId, now, redisClient, cache, req, out, plan, failed, ver, acked,
                 events, ui>>

\* await db?.end() settles.  Resolved: the pool is closed.  Rejected: the
\* handler has no try/catch, so its promise rejects, the two lines after the
\* await never run, and the unhandled rejection either ends the process with
\* code 1 or is only reported, depending on the runtime's
\* --unhandled-rejections mode.
EndPool(s) ==
  /\ Alive /\ proc.sig[s] = "ending"
  /\ \/ proc' = [proc EXCEPT !.sig[s] = "ended", !.db = "ended"]
     \/ \E c \in {"running", "exit1"} :
          proc' = [proc EXCEPT !.sig[s] = "endRejected", !.code = c]
  /\ UNCHANGED <<todos, nextId, now, redisClient, cache, req, out, plan, failed, ver, acked,
                 events, ui>>

\* await redisClient?.disconnect(); process.exit(0).  Without a client the
\* call is skipped; disconnect() of a client that is not open rejects
\* (ClientClosedError), and the handler stops there as above.
Disconnect(s) ==
  /\ Alive /\ proc.sig[s] = "ended"
  /\ IF redisClient = "undefined"
     THEN proc' = [proc EXCEPT !.sig[s] = "exited", !.code = "exit0"]
     ELSE IF proc.conn = "open"
     THEN proc' = [proc EXCEPT !.sig[s] = "exited", !.conn = "closed", !.code = "exit0"]
     ELSE \E c \in {"running", "exit1"} :
            proc' = [proc EXCEPT !.sig[s] = "disconnectRejected", !.code = c]
  /\ UNCHANGED <<todos, nextId, now, redisClient, cache, req, out, plan, failed, ver, acked,
                 events, ui>>

InitBoot ==
  /\ todos = SeedRows
  /\ nextId = Len(SeedRows) + 1
  /\ now = 1
  /\ redisClient = "undefined"
  /\ cache = NoKeys
  /\ req = [r \in Req |-> Idle]
  /\ out = NoResponse
  /\ plan \in TieBreaks
  /\ failed = FALSE
  /\ ver = 0
  /\ acked = 0
  /\ events = 0
  /\ proc = Booting
  /\ ui = Mounted

NextProcess ==
  \/ InitializeDatabase
  \/ InitializeRedis
  \/ RedisConnect
  \/ Listen
  \/ \E s \in Signals : Signal(s)
  \/ \E s \in Signals : EndPool(s)
  \/ \E s \in Signals : Disconnect(s)

SpecProcess == InitBoot /\ [][NextProcess]_vars

\* ---- the client's operations (App.js) ----------------------------------
\* Strings typed into the title input; the description is left empty.
FormTitles == {<<Space>>, <<"n", Space>>}

\* JSON as the client receives it: completed is the number 0 or 1 in a row
\* of GET /todos and the boolean false in the body of a 201; locally a
\* toggled item holds the boolean !completed.
Num(n) == [n |-> n]
Bool(b) == [b |-> b]
Truthy(v) == IF "n" \in DOMAIN v THEN v.n # 0 ELSE v.b
JsNot(v) == Bool(~Truthy(v))
FromWire(rows) == [i \in DOMAIN rows |-> [rows[i] EXCEPT !.completed = Num(@)]]

\* the add gate without the trim: !newTodo.title
AddGatedNoTrim(form) == Len(form.title) = 0

\* if (!newTodo.title.trim()) { toast.error(...); return; }
AddGated(form) == Len(Trim(form.title)) = 0

RECURSIVE Without(_, _)
\* todos.filter(todo => todo.id !== id)
Without(list, id) ==
  IF list = <<>> THEN <<>>
  ELSE IF Head(list).id = id THEN Without(Tail(list), id)
  ELSE <<Head(list)>> \o Without(Tail(list), id)

\* todos.map(todo => todo.id === id ? { ...todo, completed: !completed } : todo)
Flipped(list, id, completed) ==
  [i \in DOMAIN list |->
     IF list[i].id = id THEN [list[i] EXCEPT !.completed = JsNot(completed)] ELSE list[i]]

\* fetchTodos after the await: setTodos(response.data), or the catch's
\* toast; finally setLoading(false)
FetchDone(u, op) ==
  IF op.outcome = "ok"
  THEN [u EXCEPT !.todos = op.data, !.loading = FALSE]
  ELSE [u EXCEPT !.toast = "loadFailed", !.loading = FALSE]

\* an add whose catch also resets the form
AddDoneResetting(u, op) ==
  IF op.outcome = "ok"
  THEN [u EXCEPT !.todos = <<op.data>> \o op.snap, !.newTodo = EmptyForm, !.toast = "added"]
  ELSE [u EXCEPT !.newTodo = EmptyForm, !.toast = "addFailed"]

\* addTodo after the await: setTodos([response.data, ...todos]);
\* setNewTodo({ title: '', description: '' }); or the catch's toast.
\* todos is the list of the render in which the handler was called.
AddDone(u, op) ==
  IF op.outcome = "ok"
  THEN [u EXCEPT !.todos = <<op.data>> \o op.snap, !.newTodo = EmptyForm, !.toast = "added"]
  ELSE [u EXCEPT !.toast = "addFailed"]

\* toggleTodo after the await: setTodos(todos.map(...)), or the catch's toast
ToggleDone(u, op) ==
  IF op.outcome = "ok"
  THEN [u EXCEPT !.todos = Flipped(op.snap, op.id, op.flag), !.toast = "toggled"]
  ELSE [u EXCEPT !.toast = "toggleFailed"]

\* deleteTodo after the await: setTodos(todos.filter(...)), or the catch's toast
DeleteDone(u, op) ==
  IF op.outcome = "ok"
  THEN [u EXCEPT !.todos = Without(op.snap, op.id), !.toast = "deleted"]
  ELSE [u EXCEPT !.toast = "deleteFailed"]

\* A new request takes the lowest free slot.  window.confirm is modal: while
\* it is open no handler and no continuation runs.
FreeOp(k) == ui.ops[k].pc = "idle" /\ \A j \in Ops : j < k => ui.ops[j].pc # "idle"
CanClick == ui.clicks < MaxClicks /\ ui.confirm = 0
Shown(id) == ~ui.loading /\ \E i \in DOMAIN ui.todos : ui.todos[i].id = id
Sent(kind, id, flag) ==
  [NoOp EXCEPT !.kind = kind, !.pc = "sent", !.id = id, !.snap = ui.todos,
               !.form = ui.newTodo, !.flag = flag]

\* onChange={(e) => setNewTodo({ ...newTodo, title: e.target.value })}
Type ==
  /\ CanClick
  /\ \E t \in FormTitles :
       /\ t # ui.newTodo.title
       /\ ui' = [ui EXCEPT !.newTodo.title = t, !.clicks = @ + 1]
  /\ UNCHANGED <<todos, nextId, now, redisClient, cache, req, out, plan, failed, ver, acked,
                 events, proc>>

\* onSubmit={addTodo}: the gate, or api.post('/todos', newTodo) sent
Submit ==
  /\ CanClick
  /\ IF AddGated(ui.newTodo)
     THEN ui' = [ui EXCEPT !.toast = "titleRequired", !.clicks = @ + 1]
     ELSE \E k \in Ops :
            /\ FreeOp(k)
            /\ ui' = [ui EXCEPT !.ops[k] = Sent("add", 0, Bool(FALSE)), !.clicks = @ + 1]
  /\ UNCHANGED <<todos, nextId, now, redisClient, cache, req, out, plan, failed, ver, acked,
                 events, proc>>

\* onClick={() => toggleTodo(todo.id, todo.completed)}: api.put(...) sent
Toggle ==
  /\ CanClick
  /\ \E i \in DOMAIN ui.todos, k \in Ops :
       /\ Shown(ui.todos[i].id) /\ ui.todos[i].id \in TargetIds
       /\ FreeOp(k)
       /\ ui' = [ui EXCEPT !.ops[k] = Sent("toggle", ui.todos[i].id, ui.todos[i].completed),
                           !.clicks = @ + 1]
  /\ UNCHANGED <<todos, nextId, now, redisClient, cache, req, out, plan, failed, ver, acked,
                 events, proc>>

\* onClick={() => deleteTodo(todo.id)}: window.confirm(...) opens
AskDelete ==
  /\ CanClick
  /\ \E id \in TargetIds :
       /\ Shown(id)
       /\ ui' = [ui EXCEPT !.confirm = id, !.clicks = @ + 1]
  /\ UNCHANGED <<todos, nextId, now, redisClient, cache, req, out, plan, failed, ver, acked,
                 events, proc>>

\* window.confirm returns: false, and deleteTodo returns; true, and
\* api.delete(`/todos/${id}`) is sent
AnswerDelete ==
  /\ ui.confirm # 0
  /\ \/ ui' = [ui EXCEPT !.confirm = 0, !.answer = "no"]
     \/ \E k \in Ops :
          /\ FreeOp(k)
          /\ ui' = [ui EXCEPT !.ops[k] = Sent("delete", ui.confirm, Bool(FALSE)),
                              !.confirm = 0, !.answer = "yes"]
  /\ UNCHANGED <<todos, nextId, now, redisClient, cache, req, out, plan, failed, ver, acked,
                 events, proc>>

\* the request is lost, times out (timeout: 10000) or is answered 5xx before
\* the server has changed anything: axios rejects
Fail(k) ==
  /\ ui.ops[k].pc = "sent"
  /\ ui' = [ui EXCEPT !.ops[k].pc = "answered", !.ops[k].outcome = "fail", !.failed = TRUE]
  /\ UNCHANGED <<todos, nextId, now, redisClient, cache, req, out, plan, failed, ver, acked,
                 events, proc>>

\* The server (without a cache client) handles the request: the handler's
\* store operation and its response.  A 404 makes axios reject.
Serve(k) ==
  /\ ui.ops[k].pc = "sent"
  /\ LET op == ui.ops[k]
         answered(outcome, data) ==
           [ui EXCEPT !.ops[k].pc = "answered", !.ops[k].outcome = outcome,
                      !.ops[k].data = data, !.failed = @ \/ outcome = "fail"]
     IN CASE op.kind = "fetch" ->
               /\ ui' = answered("ok", FromWire(ResJson(SelectTodos(todos, plan))))
               /\ UNCHANGED <<todos, nextId>>
          [] op.kind = "add" ->
               /\ todos' = InsertRow(todos, nextId, Trim(op.form.title),
                                     Trim(op.form.description), now)
               /\ nextId' = nextId + 1
               /\ ui' = answered("ok",
                          [id |-> nextId, title |-> Trim(op.form.title),
                           description |-> Trim(op.form.description),
                           completed |-> Bool(FALSE), created_at |-> ToJson(AsDate(now))])
          [] op.kind = "toggle" ->
               LET todo == op.snap[CHOOSE i \in DOMAIN op.snap : op.snap[i].id = op.id]
               IN /\ todos' = UpdateRow(todos, op.id, todo.title, todo.description,
                                        ~Truthy(op.flag), now)
                  /\ nextId' = nextId
                  /\ ui' = answered(IF NotFound(AffectedRows(todos, op.id)) THEN "fail" ELSE "ok",
                                    <<>>)
          [] op.kind = "delete" ->
               /\ todos' = DeleteRow(todos, op.id)
               /\ nextId' = nextId
               /\ ui' = answered(IF NotFound(AffectedRows(todos, op.id)) THEN "fail" ELSE "ok",
                                 <<>>)
  /\ UNCHANGED <<now, redisClient, cache, req, out, plan, failed, ver, acked, events, proc>>

\* the awaited request settles and the rest of the async function runs
Done(k) ==
  /\ ui.ops[k].pc = "answered" /\ ui.confirm = 0
  /\ LET op == ui.ops[k]
         u == CASE op.kind = "fetch" -> FetchDone(ui, op)
                [] op.kind = "add" -> AddDone(ui, op)
                [] op.kind = "toggle" -> ToggleDone(ui, op)
                [] op.kind = "delete" -> DeleteDone(ui, op)
     IN ui' = [u EXCEPT !.ops[k] = NoOp]
  /\ UNCHANGED <<todos, nextId, now, redisClient, cache, req, out, plan, failed, ver, acked,
                 events, proc>>

InitClient == Init /\ redisClient = "undefined"

NextClient ==
  \/ Type
  \/ Submit
  \/ Toggle
  \/ AskDelete
  \/ AnswerDelete
  \/ \E k \in Ops : Fail(k)
  \/ \E k \in Ops : Serve(k)
  \/ \E k \in Ops : Done(k)

SpecClient == InitClient /\ [][NextClient]_vars

\* ---- one request at a time -------------------------------------------
\* The same handlers behind a client that sends a request only after the
\* previous one was answered.
Sequential == \A q \in Req : req[q].pc = "idle"
SerialGetTodos(r) == Sequential /\ GetTodos(r)
SerialPostTodo(r) == Sequential /\ PostTodo(r)
SerialPutTodo(r) == Sequential /\ PutTodo(r)
SerialDeleteTodo(r) == Sequential /\ DeleteTodo(r)

NextSerial ==
  \/ \E r \in Req : SerialGetTodos(r)
  \/ \E r \in Req : GetQuery(r)
  \/ \E r \in Req : GetSetEx(r)
  \/ \E r \in Req : SerialPostTodo(r)
  \/ \E r \in Req : PostDel(r)
  \/ \E r \in Req : SerialPutTodo(r)
  \/ \E r \in Req : PutDel(r)
  \/ \E r \in Req : SerialDeleteTodo(r)
  \/ \E r \in Req : DeleteDel(r)
  \/ Tick

SpecSerial == Init /\ [][NextSerial]_vars

\* ======================================================================
\* Properties
\* ======================================================================
IsGet200 == out.op = "get" /\ out.status = 200
Writes == {"post", "put", "delete"}

\* a title that is missing, empty or made of whitespace only
BlankTitle(body) ==
  IF "title" \notin DOMAIN body THEN TRUE
  ELSE \A i \in DOMAIN body.title : body.title[i] = Space

\* a table row as it appears in a response: timestamps as ISO strings
WireRow(row) ==
  [id |-> row.id, title |-> row.title, description |-> row.description,
   completed |-> row.completed, created_at |-> [iso |-> row.created_at],
   updated_at |-> [iso |-> row.updated_at]]
Members(list) == {list[i] : i \in DOMAIN list}
NewestFirst(list) ==
  \A i, j \in DOMAIN list : i < j => list[i].created_at.iso >= list[j].created_at.iso

\* ---- C1 ----------------------------------------------------------------
\* C1 as stated: a GET /todos answered 200 returns a list read from the store
\* no earlier than every mutation that had returned success when it started.
C1_ReadsReflectAckedWrites == IsGet200 => out.asof >= out.since

\* C1 amended: the same, except for a response served from a cache entry that
\* was written after the store had changed since the writer's own store query
\* (a GET in flight across a mutation).
C1_ReadsReflectAckedWritesUnlessRaced ==
  IsGet200 => (out.asof >= out.since \/ (out.src = "cache" /\ out.raced))

\* a GET started after an acknowledged mutation is served a list that has it
C1_Witness == IsGet200 /\ out.since > 0 /\ out.asof >= out.since

\* ---- C2 ----------------------------------------------------------------
\* C2: every row of the todos table has a title that is non-empty after
\* trimming whitespace.
C2_TitlesNeverBlank ==
  \A i \in DOMAIN todos : \E k \in DOMAIN todos[i].title : todos[i].title[k] # Space

\* ---- C3 ----------------------------------------------------------------
\* C3: a GET /todos whose store query did not fail is answered 200, whatever
\* the cache client does.
C3_CacheFailureNeverFailsRead ==
  (out.op = "get" /\ out.err # "store") => out.status = 200

\* ---- C4 ----------------------------------------------------------------
\* C4: a POST, PUT or DELETE whose store mutation succeeded is answered 201
\* or 200 even if the cache-key deletion fails.
C4_CacheFailureNeverFailsWrite ==
  (out.op \in Writes /\ out.affected > 0) => out.status \in {200, 201}

\* ---- C5 ----------------------------------------------------------------
\* C5: a POST /todos with a title that is non-empty after trimming, the store
\* operation not failing, is answered 201 with the new id and the normalized
\* values, and the row is in the table with completed false.
C5_CreateReturnsCreated ==
  (out.op = "post" /\ ~BlankTitle(out.body) /\ out.err # "store") =>
     /\ out.status = 201
     /\ out.resp.title = Trim(out.body.title)
     /\ out.resp.description =
          (IF "description" \in DOMAIN out.body THEN Trim(out.body.description) ELSE <<>>)
     /\ out.resp.completed = FALSE
     /\ \E i \in DOMAIN todos : todos[i].id = out.resp.id /\ todos[i].completed = 0

\* ---- C6 ----------------------------------------------------------------
\* C6: a POST /todos whose title is missing, empty or whitespace-only is
\* answered 400 by a step that changes neither the table nor the cache, and
\* such a request never gets as far as the INSERT.
C6_BlankTitleRejected ==
  [][ /\ \A r \in Req : req'[r].op = "post" => ~BlankTitle(req'[r].body)
      /\ (out'.op = "post" /\ BlankTitle(out'.body)) =>
           /\ out'.status = 400
           /\ todos' = todos /\ nextId' = nextId /\ cache' = cache /\ ver' = ver ]_vars

\* a whitespace-only title has been rejected
C6_Witness == out.op = "post" /\ out.status = 400 /\ out.body = [title |-> <<Space>>]

\* ---- C7 ----------------------------------------------------------------
\* the step in which the store executes the UPDATE of a PUT /todos/:id
PutExecutes(id) ==
  \/ out'.op = "put" /\ out'.id = id /\ out'.err = "none" /\ out'.mver = 0
  \/ \E r \in Req : req[r].pc = "idle" /\ req'[r].op = "put" /\ req'[r].id = id

\* C7: when the store executes the UPDATE of a PUT and no row has the id, the
\* PUT is answered 404, no row changes (none is created) and the cache key is
\* left alone.
C7_UpdateOfMissingRowIs404 ==
  [][ \A id \in TargetIds :
        (PutExecutes(id) /\ \A i \in DOMAIN todos : todos[i].id # id) =>
           /\ out'.op = "put" /\ out'.status = 404
           /\ todos' = todos /\ cache' = cache /\ ver' = ver /\ req' = req ]_vars

\* a PUT answered 404 while the DELETE of the same id, which reached the
\* store first, is still in flight
C7_Witness ==
  /\ out.op = "put" /\ out.status = 404
  /\ \E r \in Req : req[r].op = "delete" /\ req[r].pc = "del" /\ req[r].id = out.id

\* ---- C8 ----------------------------------------------------------------
\* C8: a DELETE whose id matched no row is answered 404, one whose id matched
\* a row is answered 200.
C8_DeleteStatusFollowsMatch ==
  (out.op = "delete" /\ out.err # "store") =>
     /\ out.affected = 0 => out.status = 404
     /\ out.affected > 0 => out.status = 200

C10_LatestCreatedFirst ==
  (IsGet200 /\ out.src = "store" /\ out.quiet /\ out.sver = ver
     /\ \E i \in DOMAIN todos : todos[i].id > Len(SeedRows)) =>
       \A i \in DOMAIN todos : out.resp[1].id >= todos[i].id

\* ---- C11 ---------------------------------------------------------------
Ids(table) == {table[i].id : i \in DOMAIN table}

\* C11: no two rows share an id; the id of a created row is above every id
\* assigned before it (ids of deleted rows included, all of them below the
\* AUTO_INCREMENT counter, which never goes back); the id a 201 returns is
\* such an id; and a step that keeps the number of rows keeps every row's id.
C11_IdsUniqueAndImmutable ==
  [][ /\ \A i, j \in DOMAIN todos' : i # j => todos'[i].id # todos'[j].id
      /\ \A i \in DOMAIN todos' : todos'[i].id < nextId'
      /\ nextId' >= nextId
      /\ \A id \in Ids(todos') \ Ids(todos) : id >= nextId
      /\ Len(todos') = Len(todos) => \A i \in DOMAIN todos : todos'[i].id = todos[i].id
      /\ (out'.op = "post" /\ out'.status = 201) =>
           /\ out'.resp.id > Len(SeedRows) /\ out'.resp.id < nextId'
           /\ \A r \in Req : req'[r].op = "post" => req'[r].insertId # out'.resp.id ]_vars

\* a create acknowledged with a fresh id after a seeded row was deleted
C11_Witness ==
  /\ out.op = "post" /\ out.status = 201 /\ out.resp.id = Len(SeedRows) + 1
  /\ Len(SeedRows) \notin Ids(todos)

\* ---- C12 ---------------------------------------------------------------
\* C12: the step in which the store executes the UPDATE of a PUT /todos/:id
\* that matches a row sets that row's title, description and completed flag
\* (true/false stored as 1/0) to the request's values and its updated_at to
\* the current second, keeps its id and created_at, and keeps every other
\* row, the number of rows and the id counter.
C12_UpdateTouchesOneRow ==
  [][ \A r \in Req :
        (req[r].pc = "idle" /\ req'[r].op = "put" /\ req'[r].pc = "del") =>
           /\ Len(todos') = Len(todos) /\ nextId' = nextId
           /\ \E k \in DOMAIN todos : todos[k].id = req'[r].id
           /\ \A i \in DOMAIN todos :
                IF todos[i].id = req'[r].id
                THEN /\ todos'[i].title = req'[r].body.title
                     /\ todos'[i].description = req'[r].body.description
                     /\ todos'[i].completed = (IF req'[r].body.completed THEN 1 ELSE 0)
                     /\ todos'[i].updated_at = now
                     /\ todos'[i].id = todos[i].id
                     /\ todos'[i].created_at = todos[i].created_at
                ELSE todos'[i] = todos[i] ]_vars

\* a PUT answered 200 whose row holds the request's values and an updated_at
\* later than its created_at, next to a row that was not touched
C12_Witness ==
  /\ out.op = "put" /\ out.status = 200
  /\ \E i \in DOMAIN todos :
       /\ todos[i].id = out.id /\ todos[i].title = out.body.title
       /\ todos[i].completed = 0 /\ todos[i].updated_at > todos[i].created_at
  /\ \E i \in DOMAIN todos : todos[i].id # out.id /\ todos[i].updated_at = todos[i].created_at

\* ---- C16 ---------------------------------------------------------------
\* C16: a step in which the store operation of a /todos handler fails (the
\* store rejects it, or the driver refuses its parameters) answers 500 with
\* the body {error: 'Internal server error'} and changes neither the table,
\* the id counter nor the cache; the handler ends there, so it performs no
\* cache operation afterwards.
C16_StoreFailureIs500 ==
  [][ (out'.op \in {"get", "post", "put", "delete"} /\ out'.err \in {"store", "bind"}) =>
        /\ out'.status = 500
        /\ out'.resp = [error |-> "Internal server error"]
        /\ todos' = todos /\ nextId' = nextId /\ ver' = ver
        /\ cache' = cache
        /\ \A r \in Req : req'[r] \in {req[r], Idle} ]_vars

\* the store query of a GET failed while the key held a list
C16_Witness ==
  /\ out.op = "get" /\ out.err = "store" /\ out.status = 500 /\ CacheHit(cache)

\* ---- C17 ---------------------------------------------------------------
\* the step wrote the key: it is present afterwards, and was absent or held
\* another entry before
KeyWritten == CacheHit(cache') /\ (~CacheHit(cache) \/ cache'[CacheKey] # cache[CacheKey])
Get200From(src) == out'.op = "get" /\ out'.status = 200 /\ out'.src = src

\* C17 as stated: every GET /todos answered 200 from the store (a miss) has
\* stored the list it returns under 'todos' with a 300-second expiry.
C17_MissAlwaysStores ==
  [][ Get200From("store") =>
        /\ CacheHit(cache') /\ cache'[CacheKey].val = out'.resp
        /\ cache'[CacheKey].exp = now + 300 ]_vars

\* C17 amended: a GET answered 200 from the cache returns the key's value in
\* the step that read it, which changes neither the cache nor the table and
\* starts no store query; a GET answered 200 from the store has, when a cache
\* client exists, stored exactly the list it returns under 'todos' with a
\* 300-second expiry, and has stored nothing when none exists; 'todos' is the
\* only key ever present, and only such a GET step writes it.
C17_GetIsCacheAside ==
  [][ /\ Get200From("cache") =>
           /\ CacheHit(cache) /\ out'.resp = cache[CacheKey].val
           /\ cache' = cache /\ todos' = todos /\ req' = req
      /\ Get200From("store") =>
           IF redisClient = "client"
           THEN /\ DOMAIN cache' = {"todos"}
                /\ cache'[CacheKey].val = out'.resp
                /\ cache'[CacheKey].exp = now + 300
           ELSE cache' = cache /\ ~CacheHit(cache)
      /\ DOMAIN cache' \subseteq {"todos"}
      /\ KeyWritten => (Get200From("store") /\ redisClient = "client") ]_vars

\* a list served from the cache, and the entry still in place
C17_Witness == IsGet200 /\ out.src = "cache" /\ CacheHit(cache) /\ cache[CacheKey].val = out.resp

\* ---- C20 ---------------------------------------------------------------
\* C20: with one request at a time and no failed store or cache operation,
\* whenever no request is in flight the key is absent or holds what a read of
\* the store returns now, in that order; a step that answers a mutation with
\* 200 or 201 leaves the key absent; a step that answers one with 400 or 404
\* leaves the cache as it was.
C20_SerialCacheIsExact ==
  [][ ~failed' =>
        /\ (\A q \in Req : req'[q].pc = "idle") =>
             \/ ~CacheHit(cache')
             \/ cache'[CacheKey].val = ResJson(SelectTodos(todos', plan'))
        /\ (out'.op \in Writes /\ out'.status \in {200, 201}) => "todos" \notin DOMAIN cache'
        /\ (out'.op \in Writes /\ out'.status \in {400, 404}) => cache' = cache ]_vars

\* between requests, after a mutation, the key holds the current rows
C20_Witness ==
  /\ \A q \in Req : req[q].pc = "idle"
  /\ ~failed /\ ver > 0 /\ CacheHit(cache)
  /\ cache[CacheKey].val = ResJson(SelectTodos(todos, plan))

\* ---- C18 ---------------------------------------------------------------
\* C18: a list served from the cache was stored at most 300 seconds before,
\* and, as the mutations of a behaviour are finitely many and the clock keeps
\* advancing, from some point on the key is absent or holds the store's
\* current rows, so that every GET /todos from then on, hit or miss, returns
\* the current rows.
C18_StaleAtMostTTL ==
  /\ [][ (out'.op = "get" /\ out'.status = 200 /\ out'.src = "cache") =>
          /\ CacheHit(cache) /\ now - cache[CacheKey].at <= 300
          /\ now < cache[CacheKey].exp ]_vars
  /\ <>[](CacheHit(cache) => cache[CacheKey].val = ResJson(SelectTodos(todos, plan)))

\* a list that differs from the store's rows is served from the cache some
\* time after it was stored
C18_Witness ==
  /\ IsGet200 /\ out.src = "cache"
  /\ out.resp # ResJson(SelectTodos(todos, plan))
  /\ CacheHit(cache) /\ now > cache[CacheKey].at

\* ---- C19 ---------------------------------------------------------------
\* C19: no shutdown handler stops at a failed close of the store pool: once
\* SIGTERM or SIGINT has started the shutdown, the handler gets past the pool
\* close, failed or not, to the cache close and the exit.
C19_PoolCloseIsBestEffort ==
  \A s \in Signals : proc.sig[s] # "endRejected"

\* ---- C13 ---------------------------------------------------------------
Settled == ui.confirm = 0 /\ \A k \in Ops : ui.ops[k].pc = "idle"

\* C13: once every client operation has completed, all of them with
\* success, the local list has exactly the ids of the server's rows, each
\* once, and each item's completed flag is that of its row.
C13_LocalListAgreesWithServer ==
  (Settled /\ ~ui.failed) =>
     /\ Len(ui.todos) = Len(todos)
     /\ {ui.todos[i].id : i \in DOMAIN ui.todos} = {todos[i].id : i \in DOMAIN todos}
     /\ \A i \in DOMAIN ui.todos : \A j \in DOMAIN todos :
          ui.todos[i].id = todos[j].id =>
            ((IF "n" \in DOMAIN ui.todos[i].completed
              THEN ui.todos[i].completed.n # 0
              ELSE ui.todos[i].completed.b) <=> todos[j].completed = 1)

\* ---- C14 ---------------------------------------------------------------
\* the step in which the rest of operation k runs after its request failed
FailureHandled(k) ==
  ui.ops[k].pc = "answered" /\ ui.ops[k].outcome = "fail" /\ ui'.ops[k].pc = "idle"

\* C14: the step that handles the failed request of an add, toggle or delete
\* leaves the local list as it is, nothing added, flipped or removed, and
\* leaves the form as it is; the step that handles the failed initial fetch
\* leaves the list as it is (empty unless an add has completed meanwhile)
\* and ends loading.
C14_FailureLeavesListAlone ==
  [][ \A k \in Ops : FailureHandled(k) =>
        /\ ui'.todos = ui.todos
        /\ ui'.newTodo = ui.newTodo
        /\ ui.ops[k].kind = "fetch" => ~ui'.loading
        /\ ui.ops[k].kind # "fetch" => ui'.loading = ui.loading ]_vars

\* a failed add has been handled and the form still holds the typed title
C14_Witness ==
  /\ ui.toast = "addFailed" /\ ui.newTodo.title = <<"n", Space>>
  /\ \A k \in Ops : ui.ops[k].kind # "add"

\* ---- C15 ---------------------------------------------------------------
AllSpaces(str) == \A i \in DOMAIN str : str[i] = Space
Started(k, kind) == ui.ops[k].pc = "idle" /\ ui'.ops[k].kind = kind

\* C15: a POST is sent only for a form whose title has a non-space character
\* and a DELETE only for the id whose confirmation was accepted; the step
\* that rejects a submit (the title-required toast appears) and the step that
\* declines a confirmation change neither the requests in flight, the local
\* list nor the server's rows.
C15_GatedOperationsDoNothing ==
  [][ /\ \A k \in Ops : Started(k, "add") => ~AllSpaces(ui.newTodo.title)
      /\ \A k \in Ops : Started(k, "delete") =>
           ui.confirm = ui'.ops[k].id /\ ui'.answer = "yes"
      /\ (ui'.toast = "titleRequired" /\ ui.toast # "titleRequired") =>
           ui'.ops = ui.ops /\ ui'.todos = ui.todos /\ todos' = todos /\ nextId' = nextId
      /\ (ui.confirm # 0 /\ ui'.confirm = 0 /\ ui'.answer = "no") =>
           ui'.ops = ui.ops /\ ui'.todos = ui.todos /\ todos' = todos ]_vars

\* a whitespace-only title was submitted and a confirmation declined, and the
\* list still is what the initial fetch returned
C15_Witness ==
  /\ ui.toast = "titleRequired" /\ ui.newTodo.title = <<Space>> /\ ui.answer = "no"
  /\ Settled /\ Len(ui.todos) = Len(SeedRows)
====
